---- MODULE Spec2Model ----
(***************************************************************************)
(* Model of resource_manager.py: a terminal resource monitor.              *)
(*                                                                         *)
(* Number representation.  psutil reports percentages with one decimal,    *)
(* so a percentage is modelled as an integer count of tenths of a percent  *)
(* (47.3% is 473).  Sizes in GB / MB are integer hundredths of the unit.   *)
(* For every percentage in [0, 100] in tenths and every bar length up to   *)
(* 40, and for length 30 on [-30, 130], the double-precision value         *)
(* int(percent / 100 * length) of the source equals the exact quotient     *)
(* truncated toward zero, and 100 * (h / 5) is exactly 20 * h, so the      *)
(* integer arithmetic below computes what the source does.  (Outside       *)
(* [0, 100] the two differ once for lengths up to 40: percent 116.0 with   *)
(* length 25 gives 28 in the source and 29 here, both above the length.)   *)
(***************************************************************************)
EXTENDS Integers, Sequences, FiniteSets, TLC

VARIABLES
    pc,            \* position of main(): the statement about to run
    os_name,       \* os.name of the host, "posix" or "nt"
    iteration,     \* main's local counter
    resource_data, \* main's local snapshot, the dict get_resources returned
    cpu_history,   \* the module-level deque: [items, maxlen]
    clock,         \* wall clock in whole seconds, what time.strftime reads
    screen,        \* what the terminal shows: blank or the last frame
    exit_code,     \* -1 while the process runs, else its exit status
    pushed,        \* history: every value appended to cpu_history so far
    frames,        \* history: number of frames fully printed
    resets,        \* history: clear_console() calls of the interrupt handler
    stop_msgs,     \* history: times the "stopped by user" lines were printed
    err_reports,   \* history: times "An unexpected error occurred" was printed
    fetch_errors,  \* history: times get_resources printed its error line
    interrupts,    \* history: SIGINTs sent to the process
    sample_failed, \* history: the current tick's get_resources fell back
    bar_percent,   \* bar harness: percent argument of get_colored_bar
    bar_length,    \* bar harness: length argument of get_colored_bar
    bar,           \* bar harness: the bar returned, or NoBar
    frame2,        \* compose harness: the frame of the second call
    raised         \* history: what left the try body of main, or "none"

vars == <<pc, os_name, iteration, resource_data, cpu_history, clock, screen,
          exit_code, pushed, frames, resets, stop_msgs, err_reports,
          fetch_errors, interrupts, sample_failed, bar_percent, bar_length,
          bar, frame2, raised>>

(***************************************************************************)
(* Program constants.                                                      *)
(***************************************************************************)
CPU_HISTORY_LENGTH == 30
GRAPH_HEIGHT == 5
DEFAULT_BAR_LENGTH == 30

(***************************************************************************)
(* Bounds of the model.                                                    *)
(***************************************************************************)
MaxTicks == 3        \* iterations of the while loop explored
MaxInterrupts == 2   \* SIGINTs the environment sends
MaxCap == 3          \* largest deque capacity of the buffer harness
ExtraPushes == 2     \* pushes beyond the capacity in the buffer harness
MaxOver == 200       \* how far (tenths) bar inputs leave [0, 100]
MaxWidth == 30       \* largest bar length of the bar harness
MaxClock == 2        \* seconds that may pass between two compositions
MaxHist == 2         \* values already pushed in the compose harness

Max0(n) == IF n > 0 THEN n ELSE 0

\* Python's int(): truncation toward zero of the quotient n / d, d > 0
Trunc(n, d) == IF n >= 0 THEN n \div d ELSE -((-n) \div d)

(***************************************************************************)
(* The metrics source (psutil), an external collaborator: the readings it  *)
(* may return.  Byte counts are multiples of 2^28 (memory, disk) or 2^18   *)
(* (network) so that the unit conversions below are exact in hundredths.   *)
(***************************************************************************)
CpuValues == {0, 73, 800, 1000}

HostReadings ==
    { [vm   |-> [total |-> 1879048192, used |-> 1342177280, percent |-> 714],
       du   |-> [total |-> 2013265920, used |-> 1610612736, percent |-> 800],
       net  |-> [bytes_sent |-> 126353408, bytes_recv |-> 1027866624]],
      [vm   |-> [total |-> 1879048192, used |-> 268435456, percent |-> 143],
       du   |-> [total |-> 2013265920, used |-> 0, percent |-> 0],
       net  |-> [bytes_sent |-> 0, bytes_recv |-> 262144]] }

\* the psutil query that raises, or "none"
FailPoints == {"cpu_percent", "virtual_memory", "disk_usage", "net_io_counters"}

\* x / (1024 ** 3), in hundredths of a GB
BytesToGB(x) == ((x \div 1048576) * 100) \div 1024

\* x / (1024 * 1024), in hundredths of a MB
BytesToMB(x) == ((x \div 1024) * 100) \div 1024

ZeroSnapshot ==
    [cpu_percent |-> 0, mem_total_gb |-> 0, mem_used_gb |-> 0, mem_percent |-> 0,
     disk_total_gb |-> 0, disk_used_gb |-> 0, disk_percent |-> 0,
     bytes_sent_mb |-> 0, bytes_recv_mb |-> 0]

FullSnapshot(cpu, host) ==
    [cpu_percent   |-> cpu,
     mem_total_gb  |-> BytesToGB(host.vm.total),
     mem_used_gb   |-> BytesToGB(host.vm.used),
     mem_percent   |-> host.vm.percent,
     disk_total_gb |-> BytesToGB(host.du.total),
     disk_used_gb  |-> BytesToGB(host.du.used),
     disk_percent  |-> host.du.percent,
     bytes_sent_mb |-> BytesToMB(host.net.bytes_sent),
     bytes_recv_mb |-> BytesToMB(host.net.bytes_recv)]

\* a plausible slip: the except branch returns the dict filled so far, with
\* zeros only for the keys not yet set
get_resources_partial(cpu, host, fail) ==
    LET full == FullSnapshot(cpu, host)
    IN  CASE fail = "none" -> full
          [] fail = "cpu_percent" -> ZeroSnapshot
          [] fail = "virtual_memory" ->
                [ZeroSnapshot EXCEPT !.cpu_percent = full.cpu_percent]
          [] fail = "disk_usage" ->
                [ZeroSnapshot EXCEPT !.cpu_percent = full.cpu_percent,
                                     !.mem_total_gb = full.mem_total_gb,
                                     !.mem_used_gb = full.mem_used_gb,
                                     !.mem_percent = full.mem_percent]
          [] OTHER ->
                [full EXCEPT !.bytes_sent_mb = 0, !.bytes_recv_mb = 0]

\* get_resources(): the dict it returns when the host reads (cpu, host) and
\* query `fail` raises ("none": no query raises).  Every psutil call is
\* inside the try, so whichever call raises, the except branch returns the
\* literal all-zero dict.
get_resources(cpu, host, fail) ==
    IF fail = "none" THEN FullSnapshot(cpu, host) ELSE ZeroSnapshot

(***************************************************************************)
(* collections.deque with maxlen.                                          *)
(***************************************************************************)
Zeros(n) == [i \in 1..n |-> 0]

\* deque([0.0] * n, maxlen=n)
deque_new(n) == [items |-> Zeros(n), maxlen |-> n]

\* a plausible slip: a plain list, which grows on append
deque_append_unbounded(d, v) == [d EXCEPT !.items = Append(@, v)]

\* a plausible slip: a full buffer discards from the right end
deque_append_wrong_end(d, v) ==
    IF Len(d.items) >= d.maxlen
    THEN [d EXCEPT !.items = Append(SubSeq(@, 1, Len(@) - 1), v)]
    ELSE [d EXCEPT !.items = Append(@, v)]

\* deque.append(v): a full deque discards its leftmost item
deque_append(d, v) ==
    IF Len(d.items) >= d.maxlen
    THEN [d EXCEPT !.items = Append(Tail(@), v)]
    ELSE [d EXCEPT !.items = Append(@, v)]

(***************************************************************************)
(* Renderers.  A rendered string is modelled by its cells.                 *)
(***************************************************************************)
\* ch * n: the empty string when n <= 0
Repeat(ch, n) == [i \in 1..Max0(n) |-> ch]

\* fill_count = int(percent / 100 * length): percent is in tenths, so
\* percent / 100 * length is percent * length / 1000
FillCount(percent, length) == Trunc(percent * length, 1000)

\* a plausible slip: round() instead of int()
get_colored_bar_rounded(percent, bg_color, length) ==
    LET fill_count == (percent * length + 500) \div 1000
        empty_count == length - fill_count
    IN  [fill_count |-> fill_count, empty_count |-> empty_count,
         cells |-> Repeat(bg_color, fill_count) \o Repeat("grey", empty_count)]

\* get_colored_bar(percent, bg_color, length): the two counts and the cells
\* between the bars "|"
get_colored_bar(percent, bg_color, length) ==
    LET fill_count == FillCount(percent, length)
        empty_count == length - fill_count
    IN  [fill_count |-> fill_count, empty_count |-> empty_count,
         cells |-> Repeat(bg_color, fill_count) \o Repeat("grey", empty_count)]

\* threshold = 100 * (h / GRAPH_HEIGHT), in tenths of a percent
Threshold(h) == (1000 * h) \div GRAPH_HEIGHT

\* a plausible slip: a strict comparison
GraphCellStrict(val, h) ==
    IF val > Threshold(h) THEN "block"
    ELSE IF val > 0 /\ h = 1 THEN "dot"
    ELSE " "

\* the if / elif / else of the inner loop: the cell of value val in row h
GraphCell(val, h) ==
    IF val >= Threshold(h) THEN "block"
    ELSE IF val > 0 /\ h = 1 THEN "dot"
    ELSE " "

\* render_cpu_history_graph(history): graph_lines, rows from h = GRAPH_HEIGHT
\* down to 1, each with its marker int(threshold) and one cell per value,
\* then the baseline of CPU_HISTORY_LENGTH dashes
render_cpu_history_graph(history) ==
    [rows |-> [r \in 1..GRAPH_HEIGHT |->
                 LET h == GRAPH_HEIGHT + 1 - r
                 IN  [marker |-> Threshold(h) \div 10,
                      cells |-> [c \in 1..Len(history.items) |->
                                    GraphCell(history.items[c], h)]]],
     baseline |-> CPU_HISTORY_LENGTH]

Blank == [kind |-> "blank"]

\* a plausible slip: the header counts seconds of run time, not iterations
display_monitor_uptime(data, iter) ==
    [kind |-> "frame",
     time |-> clock,
     iteration |-> iter + clock,
     cpu_load |-> data.cpu_percent,
     cpu_bar |-> get_colored_bar(data.cpu_percent, "BG_CPU", DEFAULT_BAR_LENGTH),
     graph |-> render_cpu_history_graph(cpu_history),
     mem_load |-> data.mem_percent,
     mem_bar |-> get_colored_bar(data.mem_percent, "BG_MEM", DEFAULT_BAR_LENGTH),
     mem_used |-> data.mem_used_gb,
     mem_total |-> data.mem_total_gb,
     disk_load |-> data.disk_percent,
     disk_bar |-> get_colored_bar(data.disk_percent, "BG_DISK", DEFAULT_BAR_LENGTH),
     disk_used |-> data.disk_used_gb,
     disk_total |-> data.disk_total_gb,
     sent |-> data.bytes_sent_mb,
     recv |-> data.bytes_recv_mb]

\* display_monitor(data, iteration): the lines it prints after clearing the
\* console.  It reads the global cpu_history and the wall clock.
display_monitor(data, iter) ==
    [kind |-> "frame",
     time |-> clock,
     iteration |-> iter,
     cpu_load |-> data.cpu_percent,
     cpu_bar |-> get_colored_bar(data.cpu_percent, "BG_CPU", DEFAULT_BAR_LENGTH),
     graph |-> render_cpu_history_graph(cpu_history),
     mem_load |-> data.mem_percent,
     mem_bar |-> get_colored_bar(data.mem_percent, "BG_MEM", DEFAULT_BAR_LENGTH),
     mem_used |-> data.mem_used_gb,
     mem_total |-> data.mem_total_gb,
     disk_load |-> data.disk_percent,
     disk_bar |-> get_colored_bar(data.disk_percent, "BG_DISK", DEFAULT_BAR_LENGTH),
     disk_used |-> data.disk_used_gb,
     disk_total |-> data.disk_total_gb,
     sent |-> data.bytes_sent_mb,
     recv |-> data.bytes_recv_mb]

(***************************************************************************)
(* The program: main() and what it calls.                                  *)
(***************************************************************************)
NoBar == [fill_count |-> 0, empty_count |-> 0, cells |-> <<>>]

\* the variables only the harnesses use
HarnessIdle ==
    /\ bar_percent = 0
    /\ bar_length = DEFAULT_BAR_LENGTH
    /\ bar = NoBar
    /\ frame2 = Blank

\* the history variables, at process start
HistoryStart ==
    /\ pushed = <<>>
    /\ frames = 0
    /\ resets = 0
    /\ stop_msgs = 0
    /\ err_reports = 0
    /\ fetch_errors = 0
    /\ interrupts = 0
    /\ sample_failed = FALSE
    /\ raised = "none"

\* module load, then main() up to the while: cpu_history holds
\* CPU_HISTORY_LENGTH zeros, iteration = 0; resource_data is not bound yet
\* (the placeholder is never read before get_resources assigns it)
Init ==
    /\ pc = "loop"
    /\ os_name \in {"posix", "nt"}
    /\ iteration = 0
    /\ resource_data = ZeroSnapshot
    /\ cpu_history = deque_new(CPU_HISTORY_LENGTH)
    /\ clock = 0
    /\ screen = Blank
    /\ exit_code = -1
    /\ HistoryStart
    /\ HarnessIdle

\* the statements of the try body: the loop is Running
Running == {"loop", "sample", "push", "display", "emit", "sleep"}

\* while True: iteration += 1
LoopHead ==
    /\ pc = "loop"
    /\ iteration < MaxTicks
    /\ iteration' = iteration + 1
    /\ sample_failed' = FALSE
    /\ pc' = "sample"
    /\ UNCHANGED <<os_name, resource_data, cpu_history, clock, screen, exit_code,
                   pushed, frames, resets, stop_msgs, err_reports, fetch_errors,
                   interrupts, bar_percent, bar_length, bar, frame2, raised>>

\* resource_data = get_resources(): the host reads (cpu, host), query `fail`
\* raises or none does; the except branch prints one line.  cpu_percent
\* blocks 0.1 s, which may carry the clock into the next second.
GetResources ==
    /\ pc = "sample"
    /\ \E cpu \in CpuValues, host \in HostReadings, fail \in FailPoints \cup {"none"} :
          /\ resource_data' = get_resources(cpu, host, fail)
          /\ sample_failed' = (fail # "none")
          /\ fetch_errors' = IF fail # "none" THEN fetch_errors + 1 ELSE fetch_errors
    /\ \E dt \in {0, 1} : clock' = clock + dt
    /\ pc' = "push"
    /\ UNCHANGED <<os_name, iteration, cpu_history, screen, exit_code, pushed,
                   frames, resets, stop_msgs, err_reports, interrupts,
                   bar_percent, bar_length, bar, frame2, raised>>

\* a plausible slip: the renderer pushes too, so a tick pushes twice
PushTwice ==
    /\ pc = "push"
    /\ cpu_history' = deque_append(deque_append(cpu_history, resource_data.cpu_percent),
                                    resource_data.cpu_percent)
    /\ pushed' = Append(Append(pushed, resource_data.cpu_percent),
                         resource_data.cpu_percent)
    /\ pc' = "display"
    /\ UNCHANGED <<os_name, iteration, resource_data, clock, screen, exit_code,
                   frames, resets, stop_msgs, err_reports, fetch_errors,
                   interrupts, sample_failed, bar_percent, bar_length, bar, frame2, raised>>

\* cpu_history.append(resource_data['cpu_percent'])
Push ==
    /\ pc = "push"
    /\ cpu_history' = deque_append(cpu_history, resource_data.cpu_percent)
    /\ pushed' = Append(pushed, resource_data.cpu_percent)
    /\ pc' = "display"
    /\ UNCHANGED <<os_name, iteration, resource_data, clock, screen, exit_code,
                   frames, resets, stop_msgs, err_reports, fetch_errors,
                   interrupts, sample_failed, bar_percent, bar_length, bar, frame2, raised>>

\* display_monitor, first statement: clear_console()
DisplayClear ==
    /\ pc = "display"
    /\ screen' = Blank
    /\ pc' = "emit"
    /\ UNCHANGED <<os_name, iteration, resource_data, cpu_history, clock, exit_code,
                   pushed, frames, resets, stop_msgs, err_reports, fetch_errors,
                   interrupts, sample_failed, bar_percent, bar_length, bar, frame2, raised>>

\* display_monitor, the prints: the frame reaches the terminal
DisplayPrint ==
    /\ pc = "emit"
    /\ screen' = display_monitor(resource_data, iteration)
    /\ frames' = frames + 1
    /\ pc' = "sleep"
    /\ UNCHANGED <<os_name, iteration, resource_data, cpu_history, clock, exit_code,
                   pushed, resets, stop_msgs, err_reports, fetch_errors,
                   interrupts, sample_failed, bar_percent, bar_length, bar, frame2, raised>>

\* display_monitor, a print raises (the terminal is gone, or cannot encode
\* the graph's dot): an Exception leaves the try body
DisplayRaise ==
    /\ pc = "emit"
    /\ screen' = [kind |-> "partial"]
    /\ pc' = "err"
    /\ raised' = "Exception"
    /\ UNCHANGED <<os_name, iteration, resource_data, cpu_history, clock, exit_code,
                   pushed, frames, resets, stop_msgs, err_reports, fetch_errors,
                   interrupts, sample_failed, bar_percent, bar_length, bar, frame2>>

\* time.sleep(1)
Sleep ==
    /\ pc = "sleep"
    /\ clock' = clock + 1
    /\ pc' = "loop"
    /\ UNCHANGED <<os_name, iteration, resource_data, cpu_history, screen, exit_code,
                   pushed, frames, resets, stop_msgs, err_reports, fetch_errors,
                   interrupts, sample_failed, bar_percent, bar_length, bar, frame2, raised>>

\* SIGINT while the try body runs Python code: KeyboardInterrupt is raised,
\* passes get_resources' `except Exception`, and reaches main's handler
Interrupt ==
    /\ pc \in Running
    /\ interrupts < MaxInterrupts
    /\ interrupts' = interrupts + 1
    /\ pc' = "int_clear"
    /\ raised' = "KeyboardInterrupt"
    /\ UNCHANGED <<os_name, iteration, resource_data, cpu_history, clock, screen,
                   exit_code, pushed, frames, resets, stop_msgs, err_reports,
                   fetch_errors, sample_failed, bar_percent, bar_length, bar, frame2>>

\* SIGINT while clear_console() is inside os.system('clear'): on posix
\* os.system is system(3), which ignores SIGINT in the caller until the
\* command ends, so the signal is discarded and no KeyboardInterrupt is raised
InterruptIgnored ==
    /\ pc \in {"display", "int_clear"}
    /\ os_name = "posix"
    /\ interrupts < MaxInterrupts
    /\ interrupts' = interrupts + 1
    /\ UNCHANGED <<pc, os_name, iteration, resource_data, cpu_history, clock, screen,
                   exit_code, pushed, frames, resets, stop_msgs, err_reports,
                   fetch_errors, sample_failed, bar_percent, bar_length, bar, frame2, raised>>

\* except KeyboardInterrupt: clear_console()
HandlerClear ==
    /\ pc = "int_clear"
    /\ screen' = Blank
    /\ resets' = resets + 1
    /\ pc' = "int_print"
    /\ UNCHANGED <<os_name, iteration, resource_data, cpu_history, clock, exit_code,
                   pushed, frames, stop_msgs, err_reports, fetch_errors,
                   interrupts, sample_failed, bar_percent, bar_length, bar, frame2, raised>>

\* except KeyboardInterrupt: the two prints; main returns, the process exits 0
HandlerPrint ==
    /\ pc = "int_print"
    /\ screen' = [kind |-> "stopped by user"]
    /\ stop_msgs' = stop_msgs + 1
    /\ pc' = "done"
    /\ exit_code' = 0
    /\ UNCHANGED <<os_name, iteration, resource_data, cpu_history, clock,
                   pushed, frames, resets, err_reports, fetch_errors,
                   interrupts, sample_failed, bar_percent, bar_length, bar, frame2, raised>>

\* a plausible slip: the handler sits inside the loop, which goes on
ErrorReportContinue ==
    /\ pc = "err"
    /\ err_reports' = err_reports + 1
    /\ pc' = "loop"
    /\ UNCHANGED <<os_name, iteration, resource_data, cpu_history, clock, screen,
                   exit_code, pushed, frames, resets, stop_msgs, fetch_errors,
                   interrupts, sample_failed, bar_percent, bar_length, bar, frame2, raised>>

\* except Exception as e: the print; main returns, the process exits 0
ErrorReport ==
    /\ pc = "err"
    /\ err_reports' = err_reports + 1
    /\ pc' = "done"
    /\ exit_code' = 0
    /\ UNCHANGED <<os_name, iteration, resource_data, cpu_history, clock, screen,
                   pushed, frames, resets, stop_msgs, fetch_errors,
                   interrupts, sample_failed, bar_percent, bar_length, bar, frame2, raised>>

\* SIGINT while one of main's except blocks runs: the KeyboardInterrupt has
\* no handler left, the interpreter prints a traceback and the process ends
\* as killed by SIGINT (status 130)
UncaughtInterrupt ==
    /\ pc \in {"int_clear", "int_print", "err"}
    /\ interrupts < MaxInterrupts
    /\ interrupts' = interrupts + 1
    /\ pc' = "done"
    /\ exit_code' = 130
    /\ UNCHANGED <<os_name, iteration, resource_data, cpu_history, clock, screen,
                   pushed, frames, resets, stop_msgs, err_reports,
                   fetch_errors, sample_failed, bar_percent, bar_length, bar, frame2, raised>>

Next ==
    \/ LoopHead
    \/ GetResources
    \/ Push
    \/ DisplayClear
    \/ DisplayPrint
    \/ DisplayRaise
    \/ Sleep
    \/ Interrupt
    \/ InterruptIgnored
    \/ HandlerClear
    \/ HandlerPrint
    \/ ErrorReport
    \/ UncaughtInterrupt

Spec == Init /\ [][Next]_vars

(***************************************************************************)
(* Buffer harness: a fresh deque of any capacity, then appends, as line 12 *)
(* builds cpu_history and line 187 appends to it.                          *)
(***************************************************************************)
InitBuf ==
    /\ pc = "buffer"
    /\ os_name = "posix"
    /\ iteration = 0
    /\ resource_data = ZeroSnapshot
    /\ \E n \in 1..MaxCap : cpu_history = deque_new(n)
    /\ clock = 0
    /\ screen = Blank
    /\ exit_code = -1
    /\ HistoryStart
    /\ HarnessIdle

BufAppend ==
    /\ pc = "buffer"
    /\ Len(pushed) < cpu_history.maxlen + ExtraPushes
    /\ \E v \in CpuValues :
          /\ cpu_history' = deque_append(cpu_history, v)
          /\ pushed' = Append(pushed, v)
    /\ UNCHANGED <<pc, os_name, iteration, resource_data, clock, screen, exit_code,
                   frames, resets, stop_msgs, err_reports, fetch_errors,
                   interrupts, sample_failed, bar_percent, bar_length, bar, frame2, raised>>

NextBuf == BufAppend

SpecBuf == InitBuf /\ [][NextBuf]_vars

(***************************************************************************)
(* Bar harness: get_colored_bar applied to any percent and length.         *)
(***************************************************************************)
InitBar ==
    /\ pc = "bar"
    /\ os_name = "posix"
    /\ iteration = 0
    /\ resource_data = ZeroSnapshot
    /\ cpu_history = deque_new(CPU_HISTORY_LENGTH)
    /\ clock = 0
    /\ screen = Blank
    /\ exit_code = -1
    /\ HistoryStart
    /\ bar_percent \in (0 - MaxOver)..(1000 + MaxOver)
    /\ bar_length \in 1..MaxWidth
    /\ bar = NoBar
    /\ frame2 = Blank

RenderBar ==
    /\ pc = "bar"
    /\ bar' = get_colored_bar(bar_percent, "BG_CPU", bar_length)
    /\ pc' = "bar_done"
    /\ UNCHANGED <<os_name, iteration, resource_data, cpu_history, clock, screen,
                   exit_code, pushed, frames, resets, stop_msgs, err_reports,
                   fetch_errors, interrupts, sample_failed, bar_percent,
                   bar_length, frame2, raised>>

NextBar == RenderBar

SpecBar == InitBar /\ [][NextBar]_vars

(***************************************************************************)
(* Compose harness: display_monitor called twice with the same data and    *)
(* iteration and no append to cpu_history in between; time may pass.       *)
(***************************************************************************)
RECURSIVE AppendAll(_, _)
AppendAll(d, vs) ==
    IF vs = <<>> THEN d ELSE AppendAll(deque_append(d, Head(vs)), Tail(vs))

InitCompose ==
    /\ pc = "compose"
    /\ os_name = "posix"
    /\ iteration \in 1..MaxTicks
    /\ \E cpu \in CpuValues, host \in HostReadings, fail \in {"none", "cpu_percent"} :
          resource_data = get_resources(cpu, host, fail)
    /\ \E k \in 0..MaxHist : pushed \in [1..k -> CpuValues]
    /\ cpu_history = AppendAll(deque_new(CPU_HISTORY_LENGTH), pushed)
    /\ clock = 0
    /\ screen = Blank
    /\ exit_code = -1
    /\ frames = 0
    /\ resets = 0
    /\ stop_msgs = 0
    /\ err_reports = 0
    /\ fetch_errors = 0
    /\ interrupts = 0
    /\ sample_failed = FALSE
    /\ raised = "none"
    /\ HarnessIdle

ComposeFirst ==
    /\ pc = "compose"
    /\ screen' = display_monitor(resource_data, iteration)
    /\ frames' = frames + 1
    /\ pc' = "composed1"
    /\ UNCHANGED <<os_name, iteration, resource_data, cpu_history, clock, exit_code,
                   pushed, resets, stop_msgs, err_reports, fetch_errors,
                   interrupts, sample_failed, bar_percent, bar_length, bar, frame2, raised>>

TimePasses ==
    /\ pc = "composed1"
    /\ clock < MaxClock
    /\ clock' = clock + 1
    /\ UNCHANGED <<pc, os_name, iteration, resource_data, cpu_history, screen,
                   exit_code, pushed, frames, resets, stop_msgs, err_reports,
                   fetch_errors, interrupts, sample_failed, bar_percent,
                   bar_length, bar, frame2, raised>>

ComposeSecond ==
    /\ pc = "composed1"
    /\ frame2' = display_monitor(resource_data, iteration)
    /\ frames' = frames + 1
    /\ pc' = "composed2"
    /\ UNCHANGED <<os_name, iteration, resource_data, cpu_history, clock, screen,
                   exit_code, pushed, resets, stop_msgs, err_reports, fetch_errors,
                   interrupts, sample_failed, bar_percent, bar_length, bar, raised>>

NextCompose ==
    \/ ComposeFirst
    \/ TimePasses
    \/ ComposeSecond

SpecCompose == InitCompose /\ [][NextCompose]_vars

(***************************************************************************)
(* Claims.                                                                 *)
(***************************************************************************)
LastN(s, n) == SubSeq(s, Len(s) - n + 1, Len(s))

AllZero(data) == \A k \in DOMAIN data : data[k] = 0

\* C1: in every reachable state of the program the CPU history holds exactly
\* CPU_HISTORY_LENGTH (30) values: 30 zeros before the first push, and still
\* 30 values after any number of ticks, whether the tick's sample succeeded
\* or fell back to zeros.
C1_HistoryLength ==
    /\ Len(cpu_history.items) = CPU_HISTORY_LENGTH
    /\ cpu_history.maxlen = CPU_HISTORY_LENGTH
    /\ (pushed = <<>> => \A i \in 1..CPU_HISTORY_LENGTH : cpu_history.items[i] = 0)

\* two ticks have pushed, one after a failed sample and one a real load
C1_Witness ==
    /\ Len(pushed) >= 2
    /\ fetch_errors >= 1
    /\ \E i \in 1..Len(pushed) : pushed[i] > 0
    /\ Len(cpu_history.items) = CPU_HISTORY_LENGTH

\* C2: FIFO rolling window.  After pushes v1..vk onto a fresh buffer of
\* capacity N the buffer, oldest first, is the last N elements of N zeros
\* followed by v1..vk; its newest element is vk; and once k > N it is the
\* last N pushed values, so the initial zeros and the k - N oldest pushed
\* values are gone.
C2_FifoWindow ==
    LET N == cpu_history.maxlen
        k == Len(pushed)
    IN  /\ Len(cpu_history.items) = N
        /\ cpu_history.items = LastN(Zeros(N) \o pushed, N)
        /\ ((k > 0) => (cpu_history.items[N] = pushed[k]))
        /\ ((k > N) => (cpu_history.items = SubSeq(pushed, k - N + 1, k)))
        /\ ((k <= N) => (\A i \in 1..(N - k) : cpu_history.items[i] = 0))
        /\ ((k <= N) => (\A i \in 1..k : cpu_history.items[N - k + i] = pushed[i]))

\* more pushes than the capacity: the first pushed value, a 100% that was
\* never pushed again, has been evicted
C2_Witness ==
    /\ pc = "buffer"
    /\ cpu_history.maxlen >= 2
    /\ Len(pushed) > cpu_history.maxlen
    /\ pushed[1] = 1000
    /\ \A i \in 1..Len(cpu_history.items) : cpu_history.items[i] # 1000
    /\ cpu_history.items[cpu_history.maxlen] = pushed[Len(pushed)]

\* C3: a failing metrics query is not propagated.  The step in which
\* get_resources fails leaves the loop Running with an all-zero snapshot and
\* no exit; for the rest of that tick the snapshot stays all zero, the value
\* pushed into the history is 0, and the frame emitted for the tick is the
\* frame of the all-zero snapshot; the tick then sleeps and the loop goes on.
C3_SampleFailureRecovered ==
    /\ [][(pc = "sample" /\ sample_failed')
             => (pc' = "push" /\ AllZero(resource_data') /\ exit_code' = -1
                 /\ raised' = "none")]_vars
    /\ []((sample_failed /\ pc \in {"push", "display", "emit", "sleep"})
             => AllZero(resource_data))
    /\ []((sample_failed /\ pc \in {"display", "emit", "sleep"})
             => /\ pushed[Len(pushed)] = 0
                /\ cpu_history.items[Len(cpu_history.items)] = 0)
    /\ []((sample_failed /\ pc = "sleep")
             => /\ screen.kind = "frame"
                /\ screen.iteration = iteration
                /\ screen.cpu_load = 0 /\ screen.mem_load = 0 /\ screen.disk_load = 0
                /\ screen.mem_used = 0 /\ screen.mem_total = 0
                /\ screen.disk_used = 0 /\ screen.disk_total = 0
                /\ screen.sent = 0 /\ screen.recv = 0
                /\ screen.cpu_bar.fill_count = 0)
    /\ [][(sample_failed /\ pc = "sleep" /\ interrupts' = interrupts)
             => (pc' = "loop" /\ exit_code' = -1)]_vars

\* the first tick's sample failed, its zero was pushed and its frame
\* emitted, and the loop has entered the second tick
C3_Witness ==
    /\ pc = "sample"
    /\ iteration = 2
    /\ fetch_errors = 1
    /\ pushed = <<0>>
    /\ frames = 1
    /\ screen.kind = "frame"
    /\ screen.iteration = 1
    /\ exit_code = -1

\* C4: an interrupt sent at any point of a tick while the loop is Running
\* (sampling, history push, frame emission, sleep) moves the loop to its
\* KeyboardInterrupt handler; from then on no further tick runs (no sample,
\* push or frame); and when that interrupt is the only one, the process ends
\* having reset the terminal exactly once, printed "stopped by user" once,
\* and with exit code 0.
C4_InterruptStops ==
    /\ [][(pc \in Running /\ interrupts' = interrupts + 1) => pc' = "int_clear"]_vars
    /\ [][(raised = "KeyboardInterrupt")
             => (/\ pushed' = pushed /\ frames' = frames /\ iteration' = iteration
                 /\ resource_data' = resource_data
                 /\ pc' \in {"int_clear", "int_print", "done"})]_vars
    /\ []((pc = "done" /\ raised = "KeyboardInterrupt" /\ interrupts = 1)
             => (resets = 1 /\ stop_msgs = 1 /\ exit_code = 0
                 /\ screen.kind = "stopped by user"))
    /\ [](resets <= 1)

\* C5: every tick runs sample, push, compose and emit, sleep in that order,
\* with exactly one push per tick and none by a renderer; so the frame
\* emitted at tick i shows iteration i = the number of pushes so far, and is
\* rendered from a history whose newest element is the cpu_percent of the
\* snapshot of tick i.
C5_TickOrder ==
    /\ [][(pc \in Running /\ pc' \in Running /\ pc' # pc)
             => (<<pc, pc'>> \in {<<"loop", "sample">>, <<"sample", "push">>,
                                  <<"push", "display">>, <<"display", "emit">>,
                                  <<"emit", "sleep">>, <<"sleep", "loop">>})]_vars
    /\ [][(resource_data' # resource_data \/ fetch_errors' # fetch_errors)
             => (pc = "sample" /\ pc' = "push")]_vars
    /\ [][(pushed' # pushed \/ cpu_history' # cpu_history)
             => (/\ pc = "push" /\ pc' = "display"
                 /\ Len(pushed') = Len(pushed) + 1
                 /\ pushed'[Len(pushed')] = resource_data.cpu_percent)]_vars
    /\ [][(frames' # frames) => (pc = "emit" /\ pc' = "sleep" /\ frames' = frames + 1)]_vars
    /\ []((pc \in {"sample", "push"}) => (Len(pushed) = iteration - 1))
    /\ []((pc \in {"display", "emit", "sleep", "loop"}) => (Len(pushed) = iteration))
    /\ []((pc = "sleep")
             => (/\ screen.kind = "frame"
                 /\ frames = iteration
                 /\ screen.iteration = Len(pushed)
                 /\ screen.cpu_load = resource_data.cpu_percent
                 /\ cpu_history.items[CPU_HISTORY_LENGTH] = resource_data.cpu_percent
                 /\ \A r \in 1..GRAPH_HEIGHT :
                       (screen.graph.rows[r].cells[CPU_HISTORY_LENGTH] = "block")
                          <=> (resource_data.cpu_percent * GRAPH_HEIGHT
                                  >= 1000 * (GRAPH_HEIGHT + 1 - r))))

\* the second tick has emitted its frame: two pushes, iteration 2 on screen,
\* and the newest history value is this tick's nonzero load, which differs
\* from the first tick's
C5_Witness ==
    /\ pc = "sleep"
    /\ iteration = 2
    /\ Len(pushed) = 2
    /\ screen.kind = "frame"
    /\ screen.iteration = 2
    /\ resource_data.cpu_percent = 800
    /\ pushed[1] = 73
    /\ cpu_history.items[CPU_HISTORY_LENGTH] = 800

\* C6: a condition other than an interrupt raised during a tick, outside
\* get_resources' own recovery, ends the loop: after it there is no further
\* sample, push or frame; the report is printed at most once ever, and
\* exactly once when the process then ends normally.
C6_UnexpectedFailureFatal ==
    /\ [][(raised = "Exception")
             => (/\ pushed' = pushed /\ frames' = frames /\ iteration' = iteration
                 /\ resource_data' = resource_data /\ cpu_history' = cpu_history
                 /\ fetch_errors' = fetch_errors
                 /\ pc' \in {"err", "done"})]_vars
    /\ [](err_reports <= 1)
    /\ []((err_reports = 1) => (pc = "done" /\ raised = "Exception"))
    /\ []((pc = "done" /\ raised = "Exception" /\ exit_code = 0) => (err_reports = 1))
    /\ [][(pc = "err" /\ interrupts' = interrupts) => (pc' = "done" /\ err_reports' = 1)]_vars

\* a print of the second tick's frame raised; the error was reported once
\* and the process is over, one frame and two pushes behind it
C6_Witness ==
    /\ pc = "done"
    /\ raised = "Exception"
    /\ err_reports = 1
    /\ exit_code = 0
    /\ iteration = 2
    /\ frames = 1
    /\ Len(pushed) = 2

\* C7: the bar renderer clamps percent to [0, 100]: for every percent, also
\* below 0 and above 100, and every width W the bar has
\* 0 <= fill_count <= W, 0 <= empty_count <= W and fill_count + empty_count
\* = W; percent <= 0 gives an all-empty bar, percent >= 100 an all-filled one.
C7_BarClamped ==
    (pc = "bar_done")
       => (/\ 0 <= bar.fill_count /\ bar.fill_count <= bar_length
           /\ 0 <= bar.empty_count /\ bar.empty_count <= bar_length
           /\ bar.fill_count + bar.empty_count = bar_length
           /\ Len(bar.cells) = bar_length
           /\ ((bar_percent <= 0) => (bar.fill_count = 0))
           /\ ((bar_percent >= 1000) => (bar.fill_count = bar_length)))

\* C8: for percent in [0, 100] and width W the bar is
\* fill_count = floor(percent / 100 * W) filled cells followed by
\* W - fill_count empty cells; 0% gives no filled cell, 100% gives W,
\* 50% of width 30 gives 15, and fill_count never decreases as percent grows.
C8_BarFill ==
    (pc = "bar_done" /\ 0 <= bar_percent /\ bar_percent <= 1000)
       => (/\ bar.fill_count * 1000 <= bar_percent * bar_length
           /\ bar_percent * bar_length < (bar.fill_count + 1) * 1000
           /\ bar.empty_count = bar_length - bar.fill_count
           /\ Len(bar.cells) = bar_length
           /\ \A i \in 1..bar_length :
                 bar.cells[i] = IF i <= bar.fill_count THEN "BG_CPU" ELSE "grey"
           /\ ((bar_percent = 0) => (bar.fill_count = 0 /\ bar.empty_count = bar_length))
           /\ ((bar_percent = 1000) => (bar.fill_count = bar_length /\ bar.empty_count = 0))
           /\ ((bar_percent = 500 /\ bar_length = 30) => (bar.fill_count = 15))
           /\ \A q \in 0..bar_percent :
                 FillCount(q, bar_length) <= bar.fill_count)

\* 47.3% on the default width: 14 filled cells, 16 empty
C8_Witness ==
    /\ pc = "bar_done"
    /\ bar_percent = 473
    /\ bar_length = DEFAULT_BAR_LENGTH
    /\ bar.fill_count = 14
    /\ bar.empty_count = 16

\* C9: in the graph of a frame, for every row h = GRAPH_HEIGHT..1 with
\* threshold 100 * h / GRAPH_HEIGHT and every history value v in buffer
\* order, the cell is filled iff v >= threshold (equality fills: 80 in row
\* h = 4), is the faint marker iff v < threshold, v > 0 and h = 1, and is
\* blank otherwise; so a zero column is blank in every row and a 100 column
\* is filled in every row.
C9_GraphCells ==
    (pc = "sleep")
       => (/\ screen.kind = "frame"
           /\ Len(screen.graph.rows) = GRAPH_HEIGHT
           /\ \A r \in 1..GRAPH_HEIGHT :
                 LET h == GRAPH_HEIGHT + 1 - r
                     row == screen.graph.rows[r]
                 IN  /\ Len(row.cells) = Len(cpu_history.items)
                     /\ row.marker * GRAPH_HEIGHT = 100 * h
                     /\ \A c \in 1..Len(cpu_history.items) :
                           LET v == cpu_history.items[c]
                               cell == row.cells[c]
                               above == v * GRAPH_HEIGHT >= 1000 * h
                           IN  /\ (cell = "block") <=> above
                               /\ (cell = "dot") <=> (~above /\ v > 0 /\ h = 1)
                               /\ (cell = " ") <=> (~above /\ ~(v > 0 /\ h = 1))
                               /\ ((v = 0) => (cell = " "))
                               /\ ((v = 1000) => (cell = "block"))
                               /\ ((v = 800 /\ h = 4) => (cell = "block"))
                               /\ ((v = 800 /\ h = 5) => (cell = " ")))

\* the frame of the third tick graphs 80%, 7.3% and 100% in its last three
\* columns: 80 fills row h = 4 but not h = 5, 7.3 is the faint marker of the
\* bottom row, 100 fills the top row
C9_Witness ==
    /\ pc = "sleep"
    /\ pushed = <<800, 73, 1000>>
    /\ screen.kind = "frame"
    /\ screen.graph.rows[2].cells[CPU_HISTORY_LENGTH - 2] = "block"
    /\ screen.graph.rows[1].cells[CPU_HISTORY_LENGTH - 2] = " "
    /\ screen.graph.rows[GRAPH_HEIGHT].cells[CPU_HISTORY_LENGTH - 1] = "dot"
    /\ screen.graph.rows[1].cells[CPU_HISTORY_LENGTH] = "block"
    /\ screen.graph.rows[GRAPH_HEIGHT].cells[1] = " "

\* C10 as stated: composing twice from the same snapshot, history and
\* iteration, with no change of the history in between, gives identical
\* frames.
C10_Idempotent ==
    (pc = "composed2") => (frame2 = screen)

\* C10 amended: the two frames agree in everything but the "Last Update"
\* time, which is the wall-clock second of each call, so they are identical
\* when both calls fall in the same second; and composing leaves the history
\* as it was.
C10_IdempotentUpToTime ==
    /\ (pc = "composed2")
          => (/\ screen.kind = "frame" /\ frame2.kind = "frame"
              /\ [frame2 EXCEPT !.time = screen.time] = screen
              /\ frame2.time = clock
              /\ ((screen.time = clock) => (frame2 = screen))
              /\ frame2.iteration = iteration)
    /\ cpu_history = AppendAll(deque_new(CPU_HISTORY_LENGTH), pushed)

\* the second composition happened a second or more after the first, from
\* a history that holds real load
C10_Witness ==
    /\ pc = "composed2"
    /\ frame2.time > screen.time
    /\ Len(pushed) = 2
    /\ pushed[2] = 800
    /\ resource_data.cpu_percent = 73

====
